---- MODULE Spec2Model ----
(***************************************************************************)
(* Open-addressing hash maps of andrewqho/RobinhoodHashMap: LinearMap with *)
(* tombstone deletion, LinearMap with backward-shift deletion and the      *)
(* Robin Hood map.  The three maps are driven in lock step by the same     *)
(* sequence of insert / emplace / remove calls, next to a reference        *)
(* key -> value map.                                                       *)
(***************************************************************************)
EXTENDS Integers, Sequences, FiniteSets, TLC

VARIABLES
    cfg,      \* construction-time configuration: threshold, key/value universe of the calls
    tbl,      \* tbl[v]: the Table of variant v (slots, capacity, live_count, tombstone_count)
    ref,      \* reference map: key -> value, NoValue when absent
    last,     \* the last completed call: operation, key, per-variant return value,
              \* whether the key was held by the variant's table when the call began,
              \* and the keys the call relocated to another slot
    growth,   \* growth[v]: what the resize inside the last insert saw and did
    removed,  \* TRUE once any remove call has been made
    log       \* the first cfg.logLen mutating calls, in order; Overflow once there were more

vars == <<cfg, tbl, ref, last, growth, removed, log>>

----------------------------------------------------------------------------
(* Bounds of the model *)

MaxCap == 4       \* general configurations take no insert that grows a table beyond this
MaxKey == 4       \* general configurations use keys 0..MaxKey
MaxVal == 2       \* general configurations use values 1..MaxVal

----------------------------------------------------------------------------
(* Construction-time configuration *)

Variants == {"Tombstone", "BackwardShift", "RobinHood"}

NoValue == 0

\* load factor 0.5 of the benchmark configuration, as a fraction
DefaultThreshold == [num |-> 1, den |-> 2]

\* the threshold is a configurable option: any load factor strictly between 0 and 1
Thresholds == {DefaultThreshold, [num |-> 3, den |-> 4]}

InitCaps == {1, 2, 3, 4}

GeneralConfigs ==
    { [threshold |-> th, keys |-> 0..MaxKey, vals |-> 1..MaxVal, maxCap |-> MaxCap,
       logLen |-> 0] : th \in Thresholds }

\* the worked example: capacity 8, keys 0, 8, 16, 32 all hashing to index 0, value 1
ScenarioConfig ==
    [threshold |-> DefaultThreshold, keys |-> {0, 8, 16, 32}, vals |-> {1}, maxCap |-> 8,
     logLen |-> 5]

ScenarioCap == 8

\* a table of the example's size with keys that collide (0, 8, 16), interleave (1) and
\* wrap around the end of the array (7, 15), reached directly or by growing from 4 slots
MixedConfig ==
    [threshold |-> DefaultThreshold, keys |-> {0, 8, 16, 1, 7, 15}, vals |-> {1},
     maxCap |-> ScenarioCap, logLen |-> 0]

MixedCaps == {4, ScenarioCap}

\* a table configured with a resize threshold below 1/2: a few keys, one value, and growth
\* followed up to LowMaxCap slots
LowMaxCap == 16

LowThreshold == [num |-> 1, den |-> 4]

LowThresholdConfig ==
    [threshold |-> LowThreshold, keys |-> 0..3, vals |-> {1}, maxCap |-> LowMaxCap,
     logLen |-> 0]

LowThresholdCaps == {1, 2}

----------------------------------------------------------------------------
(* Slot Store *)

EmptySlot     == [state |-> "Empty",     key |-> 0, value |-> 0, hash |-> 0, psl |-> 0]
TombstoneSlot == [state |-> "Tombstone", key |-> 0, value |-> 0, hash |-> 0, psl |-> 0]

Entry(k, v, h, p) == [state |-> "Occupied", key |-> k, value |-> v, hash |-> h, psl |-> p]

NewTable(cap) ==
    [slots |-> [i \in 0..(cap - 1) |-> EmptySlot],
     capacity |-> cap, live_count |-> 0, tombstone_count |-> 0]

\* the hash function is the identity on integers
Hash(k) == k

\* Probe Sequencer: index_0 = hash mod capacity, index_{i+1} = (index_i + 1) mod capacity
HomeIndex(h, cap) == h % cap
ProbeIndex(h, cap, i) == (HomeIndex(h, cap) + i) % cap

\* probe distance of slot idx from the home index of hash h
Distance(h, cap, idx) == (idx - HomeIndex(h, cap) + cap) % cap

NotFound == [found |-> FALSE, value |-> NoValue]
Found(v) == [found |-> TRUE, value |-> v]

----------------------------------------------------------------------------
(* LinearMap: probing shared by the tombstone and backward-shift variants *)

\* mutant of LinearFindFrom: a Tombstone ends the probe like an Empty slot
RECURSIVE LinearFindFromStopsAtTombstone(_, _, _)
LinearFindFromStopsAtTombstone(t, k, i) ==
    IF i >= t.capacity THEN -1
    ELSE LET idx == ProbeIndex(Hash(k), t.capacity, i)
             s   == t.slots[idx]
         IN  IF s.state # "Occupied" THEN -1
             ELSE IF s.key = k THEN idx
             ELSE LinearFindFromStopsAtTombstone(t, k, i + 1)

\* index of the Occupied slot holding key, or -1: Empty terminates, Tombstone is skipped
RECURSIVE LinearFindFrom(_, _, _)
LinearFindFrom(t, k, i) ==
    IF i >= t.capacity THEN -1
    ELSE LET idx == ProbeIndex(Hash(k), t.capacity, i)
             s   == t.slots[idx]
         IN  IF s.state = "Empty" THEN -1
             ELSE IF s.state = "Occupied" /\ s.key = k THEN idx
             ELSE LinearFindFrom(t, k, i + 1)

LinearFind(t, k) == LinearFindFrom(t, k, 0)

LinearEmplace(t, k) ==
    LET idx == LinearFind(t, k)
    IN  IF idx = -1 THEN NotFound ELSE Found(t.slots[idx].value)

\* write a new entry at idx, reclaiming a tombstone when idx holds one
LinearPlace(t, idx, k, v) ==
    [t EXCEPT !.slots[idx] = Entry(k, v, Hash(k), 0),
              !.live_count = @ + 1,
              !.tombstone_count = IF t.slots[idx].state = "Tombstone" THEN @ - 1 ELSE @]

\* mutant of LinearInsertFrom: a matching key keeps its old value
RECURSIVE LinearInsertFromKeepsValue(_, _, _, _, _)
LinearInsertFromKeepsValue(t, k, v, i, firstTomb) ==
    IF i >= t.capacity
    THEN IF firstTomb = -1 THEN t ELSE LinearPlace(t, firstTomb, k, v)
    ELSE LET idx == ProbeIndex(Hash(k), t.capacity, i)
             s   == t.slots[idx]
         IN  IF s.state = "Occupied" /\ s.key = k
             THEN t
             ELSE IF s.state = "Empty"
             THEN LinearPlace(t, IF firstTomb = -1 THEN idx ELSE firstTomb, k, v)
             ELSE IF s.state = "Tombstone" /\ firstTomb = -1
             THEN LinearInsertFromKeepsValue(t, k, v, i + 1, idx)
             ELSE LinearInsertFromKeepsValue(t, k, v, i + 1, firstTomb)

\* mutant of LinearInsertFrom: the entry is written into the first Tombstone or Empty
\* slot met, without probing on for the key
RECURSIVE LinearInsertFromFirstFree(_, _, _, _, _)
LinearInsertFromFirstFree(t, k, v, i, firstTomb) ==
    IF i >= t.capacity THEN t
    ELSE LET idx == ProbeIndex(Hash(k), t.capacity, i)
             s   == t.slots[idx]
         IN  IF s.state = "Occupied" /\ s.key = k
             THEN [t EXCEPT !.slots[idx].value = v]
             ELSE IF s.state # "Occupied"
             THEN LinearPlace(t, idx, k, v)
             ELSE LinearInsertFromFirstFree(t, k, v, i + 1, firstTomb)

\* walk the probe sequence: a matching key is overwritten; otherwise the entry goes
\* into the first tombstone seen instead of the empty slot that terminated the probe
RECURSIVE LinearInsertFrom(_, _, _, _, _)
LinearInsertFrom(t, k, v, i, firstTomb) ==
    IF i >= t.capacity
    THEN IF firstTomb = -1 THEN t ELSE LinearPlace(t, firstTomb, k, v)
    ELSE LET idx == ProbeIndex(Hash(k), t.capacity, i)
             s   == t.slots[idx]
         IN  IF s.state = "Occupied" /\ s.key = k
             THEN [t EXCEPT !.slots[idx].value = v]
             ELSE IF s.state = "Empty"
             THEN LinearPlace(t, IF firstTomb = -1 THEN idx ELSE firstTomb, k, v)
             ELSE IF s.state = "Tombstone" /\ firstTomb = -1
             THEN LinearInsertFrom(t, k, v, i + 1, idx)
             ELSE LinearInsertFrom(t, k, v, i + 1, firstTomb)

LinearInsert(t, k, v) == LinearInsertFrom(t, k, v, 0, -1)

\* mutant of TombstoneRemove: the counters are updated but the slot is left as it was
TombstoneRemoveCountsOnly(t, k) ==
    LET idx == LinearFind(t, k)
    IN  IF idx = -1 THEN [table |-> t, result |-> FALSE]
        ELSE [table |-> [t EXCEPT !.tombstone_count = @ + 1,
                                  !.live_count = @ - 1],
              result |-> TRUE]

\* mutant of TombstoneRemove: the slot is marked Empty, which cuts the probe paths that
\* cross it
TombstoneRemoveMarksEmpty(t, k) ==
    LET idx == LinearFind(t, k)
    IN  IF idx = -1 THEN [table |-> t, result |-> FALSE]
        ELSE [table |-> [t EXCEPT !.slots[idx] = EmptySlot,
                                  !.live_count = @ - 1],
              result |-> TRUE]

\* Tombstone deletion: mark the slot, keep it on the probe paths that cross it
TombstoneRemove(t, k) ==
    LET idx == LinearFind(t, k)
    IN  IF idx = -1 THEN [table |-> t, result |-> FALSE]
        ELSE [table |-> [t EXCEPT !.slots[idx] = TombstoneSlot,
                                  !.tombstone_count = @ + 1,
                                  !.live_count = @ - 1],
              result |-> TRUE]

\* mutant of ShiftLegal: every entry that follows the hole may be moved into it
ShiftLegalAlways(s, cap, hole, j) == TRUE

\* may the entry in slot j be moved back into the hole?  Not when that would carry it
\* past its original (home) slot
ShiftLegal(s, cap, hole, j) == Distance(s.hash, cap, j) >= (j - hole + cap) % cap

\* mutant of LinearShiftFrom: only the entry next to the hole is moved down
LinearShiftFromOnce(slots, cap, hole, j, steps) ==
    IF slots[j].state = "Empty" \/ ~ShiftLegal(slots[j], cap, hole, j) THEN slots
    ELSE [slots EXCEPT ![hole] = slots[j], ![j] = EmptySlot]

\* mutant of LinearShiftFrom: the loop stops at the first entry that may not be moved
RECURSIVE LinearShiftFromStops(_, _, _, _, _)
LinearShiftFromStops(slots, cap, hole, j, steps) ==
    IF steps >= cap - 1 \/ slots[j].state = "Empty" THEN slots
    ELSE IF ShiftLegal(slots[j], cap, hole, j)
    THEN LinearShiftFromStops([slots EXCEPT ![hole] = slots[j], ![j] = EmptySlot],
                              cap, j, (j + 1) % cap, steps + 1)
    ELSE slots

\* move entries down until the hole is filled in: an Empty slot ends the run, an entry
\* that may not be moved is passed over and the next one is examined
RECURSIVE LinearShiftFrom(_, _, _, _, _)
LinearShiftFrom(slots, cap, hole, j, steps) ==
    IF steps >= cap - 1 \/ slots[j].state = "Empty" THEN slots
    ELSE IF ShiftLegal(slots[j], cap, hole, j)
    THEN LinearShiftFrom([slots EXCEPT ![hole] = slots[j], ![j] = EmptySlot],
                         cap, j, (j + 1) % cap, steps + 1)
    ELSE LinearShiftFrom(slots, cap, hole, (j + 1) % cap, steps + 1)

\* mutant of BackwardShiftRemove: the slot is marked instead of being filled in
BackwardShiftRemoveMarks(t, k) ==
    LET idx == LinearFind(t, k)
    IN  IF idx = -1 THEN [table |-> t, result |-> FALSE]
        ELSE [table |-> [t EXCEPT !.slots[idx] = TombstoneSlot,
                                  !.tombstone_count = @ + 1,
                                  !.live_count = @ - 1],
              result |-> TRUE]

BackwardShiftRemove(t, k) ==
    LET idx == LinearFind(t, k)
    IN  IF idx = -1 THEN [table |-> t, result |-> FALSE]
        ELSE [table |-> [t EXCEPT !.slots = LinearShiftFrom([t.slots EXCEPT ![idx] = EmptySlot],
                                                           t.capacity, idx,
                                                           (idx + 1) % t.capacity, 0),
                                  !.live_count = @ - 1],
              result |-> TRUE]

----------------------------------------------------------------------------
(* Robin Hood map *)

\* probe forward while the step count is <= the resident's PSL
RECURSIVE RobinHoodFindFrom(_, _, _)
RobinHoodFindFrom(t, k, i) ==
    IF i >= t.capacity THEN -1
    ELSE LET idx == ProbeIndex(Hash(k), t.capacity, i)
             s   == t.slots[idx]
         IN  IF s.state # "Occupied" THEN -1
             ELSE IF s.key = k THEN idx
             ELSE IF s.psl < i THEN -1
             ELSE RobinHoodFindFrom(t, k, i + 1)

RobinHoodFind(t, k) == RobinHoodFindFrom(t, k, 0)

RobinHoodEmplace(t, k) ==
    LET idx == RobinHoodFind(t, k)
    IN  IF idx = -1 THEN NotFound ELSE Found(t.slots[idx].value)

\* mutant of RobinHoodInsertFrom: the displaced resident travels on with its old PSL
RECURSIVE RobinHoodInsertFromStalePsl(_, _, _, _)
RobinHoodInsertFromStalePsl(t, trav, idx, steps) ==
    IF steps >= t.capacity THEN t
    ELSE LET s == t.slots[idx]
             next == (idx + 1) % t.capacity
         IN  IF s.state # "Occupied"
             THEN [t EXCEPT !.slots[idx] = trav, !.live_count = @ + 1]
             ELSE IF s.key = trav.key
             THEN [t EXCEPT !.slots[idx].value = trav.value]
             ELSE IF s.psl < trav.psl
             THEN RobinHoodInsertFromStalePsl([t EXCEPT !.slots[idx] = trav], s, next, steps + 1)
             ELSE RobinHoodInsertFromStalePsl(t, [trav EXCEPT !.psl = @ + 1], next, steps + 1)

\* mutant of RobinHoodInsertFrom: the traveling entry never takes a resident's slot
RECURSIVE RobinHoodInsertFromNoSwap(_, _, _, _)
RobinHoodInsertFromNoSwap(t, trav, idx, steps) ==
    IF steps >= t.capacity THEN t
    ELSE LET s == t.slots[idx]
             next == (idx + 1) % t.capacity
         IN  IF s.state # "Occupied"
             THEN [t EXCEPT !.slots[idx] = trav, !.live_count = @ + 1]
             ELSE IF s.key = trav.key
             THEN [t EXCEPT !.slots[idx].value = trav.value]
             ELSE RobinHoodInsertFromNoSwap(t, [trav EXCEPT !.psl = @ + 1], next, steps + 1)

\* mutant of RobinHoodInsertFrom: the swap test is reversed, the poorer resident is displaced
RECURSIVE RobinHoodInsertFromReversed(_, _, _, _)
RobinHoodInsertFromReversed(t, trav, idx, steps) ==
    IF steps >= t.capacity THEN t
    ELSE LET s == t.slots[idx]
             next == (idx + 1) % t.capacity
         IN  IF s.state # "Occupied"
             THEN [t EXCEPT !.slots[idx] = trav, !.live_count = @ + 1]
             ELSE IF s.key = trav.key
             THEN [t EXCEPT !.slots[idx].value = trav.value]
             ELSE IF s.psl > trav.psl
             THEN RobinHoodInsertFromReversed([t EXCEPT !.slots[idx] = trav],
                                              [s EXCEPT !.psl = @ + 1], next, steps + 1)
             ELSE RobinHoodInsertFromReversed(t, [trav EXCEPT !.psl = @ + 1], next, steps + 1)

\* carry the traveling entry along the probe: place it in an Empty slot, overwrite the
\* value of a matching key, swap with a resident whose PSL is smaller
RECURSIVE RobinHoodInsertFrom(_, _, _, _)
RobinHoodInsertFrom(t, trav, idx, steps) ==
    IF steps >= t.capacity THEN t
    ELSE LET s == t.slots[idx]
             next == (idx + 1) % t.capacity
         IN  IF s.state # "Occupied"
             THEN [t EXCEPT !.slots[idx] = trav, !.live_count = @ + 1]
             ELSE IF s.key = trav.key
             THEN [t EXCEPT !.slots[idx].value = trav.value]
             ELSE IF s.psl < trav.psl
             THEN RobinHoodInsertFrom([t EXCEPT !.slots[idx] = trav],
                                      [s EXCEPT !.psl = @ + 1], next, steps + 1)
             ELSE RobinHoodInsertFrom(t, [trav EXCEPT !.psl = @ + 1], next, steps + 1)

RobinHoodInsert(t, k, v) ==
    RobinHoodInsertFrom(t, Entry(k, v, Hash(k), 0), HomeIndex(Hash(k), t.capacity), 0)

\* shift the run that follows the hole one slot earlier while the successor's PSL is
\* positive, decrementing each moved entry's PSL by one
RECURSIVE RobinHoodShiftFrom(_, _, _, _)
RobinHoodShiftFrom(slots, cap, hole, steps) ==
    LET j == (hole + 1) % cap
    IN  IF steps >= cap - 1 \/ slots[j].state # "Occupied" \/ slots[j].psl = 0 THEN slots
        ELSE RobinHoodShiftFrom([slots EXCEPT ![hole] = [slots[j] EXCEPT !.psl = @ - 1],
                                              ![j] = EmptySlot],
                                cap, j, steps + 1)

RobinHoodRemove(t, k) ==
    LET idx == RobinHoodFind(t, k)
    IN  IF idx = -1 THEN [table |-> t, result |-> FALSE]
        ELSE [table |-> [t EXCEPT !.slots = RobinHoodShiftFrom([t.slots EXCEPT ![idx] = EmptySlot],
                                                               t.capacity, idx, 0),
                                  !.live_count = @ - 1],
              result |-> TRUE]

----------------------------------------------------------------------------
(* The three variants behind one operation surface *)

Place(v, t, k, val) ==
    IF v = "RobinHood" THEN RobinHoodInsert(t, k, val) ELSE LinearInsert(t, k, val)

Emplace(v, t, k) ==
    IF v = "RobinHood" THEN RobinHoodEmplace(t, k) ELSE LinearEmplace(t, k)

Remove(v, t, k) ==
    IF v = "RobinHood" THEN RobinHoodRemove(t, k)
    ELSE IF v = "BackwardShift" THEN BackwardShiftRemove(t, k)
    ELSE TombstoneRemove(t, k)

----------------------------------------------------------------------------
(* Resize Manager *)

\* mutant of ExceedsThreshold: the load is never found to exceed the threshold
ExceedsThresholdNever(t, th) == FALSE

\* (N + T) / K exceeds the configured threshold
ExceedsThreshold(t, th) == (t.live_count + t.tombstone_count) * th.den > th.num * t.capacity

GrowCapacity(cap) == 2 * cap

\* mutant of Reinsert: the pass starts one slot late
RECURSIVE ReinsertSkipsFirst(_, _, _, _)
ReinsertSkipsFirst(v, old, new, i) ==
    IF i + 1 >= old.capacity THEN new
    ELSE LET s == old.slots[i + 1]
         IN  IF s.state = "Occupied"
             THEN ReinsertSkipsFirst(v, old, Place(v, new, s.key, s.value), i + 1)
             ELSE ReinsertSkipsFirst(v, old, new, i + 1)

\* reinsert every live entry of old, in table order from index i, into the new table
RECURSIVE Reinsert(_, _, _, _)
Reinsert(v, old, new, i) ==
    IF i >= old.capacity THEN new
    ELSE LET s == old.slots[i]
         IN  IF s.state = "Occupied"
             THEN Reinsert(v, old, Place(v, new, s.key, s.value), i + 1)
             ELSE Reinsert(v, old, new, i + 1)

\* mutant of Resize: the tombstone counter of the old table is carried over
ResizeKeepsCount(v, t) ==
    [Reinsert(v, t, NewTable(GrowCapacity(t.capacity)), 0)
        EXCEPT !.tombstone_count = t.tombstone_count]

Resize(v, t) == Reinsert(v, t, NewTable(GrowCapacity(t.capacity)), 0)

\* insert: place or update, then grow inside the same call when the threshold is crossed
Insert(v, t, k, val, th) ==
    LET placed == Place(v, t, k, val)
    IN  IF ExceedsThreshold(placed, th) THEN Resize(v, placed) ELSE placed

----------------------------------------------------------------------------
(* Observations *)

Pairs(t) ==
    { <<t.slots[i].key, t.slots[i].value>> :
        i \in { j \in 0..(t.capacity - 1) : t.slots[j].state = "Occupied" } }

SlotsOf(t, k) ==
    { i \in 0..(t.capacity - 1) : t.slots[i].state = "Occupied" /\ t.slots[i].key = k }

Present(t, k) == SlotsOf(t, k) # {}

TombstoneSlots(t) == { i \in 0..(t.capacity - 1) : t.slots[i].state = "Tombstone" }

NoGrowth ==
    [resized |-> FALSE, oldCapacity |-> 0, oldLive |-> 0, oldTombstones |-> 0, oldPairs |-> {}]

\* what the resize inside insert(k, val) on table t sees just before it rebuilds
GrowthOf(v, t, k, val, th) ==
    LET placed == Place(v, t, k, val)
    IN  IF ExceedsThreshold(placed, th)
        THEN [resized |-> TRUE, oldCapacity |-> placed.capacity,
              oldLive |-> placed.live_count, oldTombstones |-> placed.tombstone_count, oldPairs |-> Pairs(placed)]
        ELSE NoGrowth

----------------------------------------------------------------------------
(* State machine *)

Overflow == <<"overflow">>

Logged(call) ==
    IF cfg.logLen = 0 THEN log
    ELSE IF log = Overflow \/ Len(log) >= cfg.logLen THEN Overflow
    ELSE Append(log, call)

HeldBy(k) == [v \in Variants |-> Present(tbl[v], k)]

\* the keys held before and after a call, but in another slot
Relocated(old, new) ==
    { k \in cfg.keys : Present(old, k) /\ Present(new, k) /\ SlotsOf(old, k) # SlotsOf(new, k) }

NoneMoved == [v \in Variants |-> {}]

InitWith(c, cap) ==
    /\ cfg = c
    /\ tbl = [v \in Variants |-> NewTable(cap)]
    /\ ref = [k \in c.keys |-> NoValue]
    /\ last = [op |-> "none", key |-> 0,
               present |-> [v \in Variants |-> FALSE], moved |-> NoneMoved,
               result |-> [v \in Variants |-> NotFound]]
    /\ growth = [v \in Variants |-> NoGrowth]
    /\ removed = FALSE
    /\ log = <<>>

Init == \E c \in GeneralConfigs, cap \in InitCaps : InitWith(c, cap)

InitScenario == InitWith(ScenarioConfig, ScenarioCap)

InitMixed == \E cap \in MixedCaps : InitWith(MixedConfig, cap)

InitLowThreshold == \E cap \in LowThresholdCaps : InitWith(LowThresholdConfig, cap)

DoInsert ==
    \E k \in cfg.keys, val \in cfg.vals :
        LET new == [v \in Variants |-> Insert(v, tbl[v], k, val, cfg.threshold)]
        IN  /\ \A v \in Variants : new[v].capacity <= cfg.maxCap
            /\ tbl' = new
            /\ growth' = [v \in Variants |-> GrowthOf(v, tbl[v], k, val, cfg.threshold)]
            /\ ref' = [ref EXCEPT ![k] = val]
            /\ last' = [op |-> "insert", key |-> k, present |-> HeldBy(k),
                        moved |-> [v \in Variants |-> Relocated(tbl[v], new[v])],
                        result |-> [v \in Variants |-> NotFound]]
            /\ log' = Logged(<<"insert", k, val>>)
            /\ UNCHANGED <<cfg, removed>>

DoEmplace ==
    \E k \in cfg.keys :
        /\ last' = [op |-> "emplace", key |-> k, present |-> HeldBy(k), moved |-> NoneMoved,
                    result |-> [v \in Variants |-> Emplace(v, tbl[v], k)]]
        /\ growth' = [v \in Variants |-> NoGrowth]
        /\ UNCHANGED <<cfg, tbl, ref, removed, log>>

DoRemove ==
    \E k \in cfg.keys :
        LET r == [v \in Variants |-> Remove(v, tbl[v], k)]
        IN  /\ tbl' = [v \in Variants |-> r[v].table]
            /\ last' = [op |-> "remove", key |-> k, present |-> HeldBy(k),
                        moved |-> [v \in Variants |-> Relocated(tbl[v], r[v].table)],
                        result |-> [v \in Variants |->
                                      [found |-> r[v].result, value |-> NoValue]]]
            /\ growth' = [v \in Variants |-> NoGrowth]
            /\ ref' = [ref EXCEPT ![k] = NoValue]
            /\ removed' = TRUE
            /\ log' = Logged(<<"remove", k>>)
            /\ UNCHANGED cfg

Next == DoInsert \/ DoEmplace \/ DoRemove

Spec == Init /\ [][Next]_vars

SpecScenario == InitScenario /\ [][Next]_vars

SpecMixed == InitMixed /\ [][Next]_vars

SpecLowThreshold == InitLowThreshold /\ [][Next]_vars

TypeOK ==
    \A v \in Variants :
        /\ tbl[v].capacity \in 1..cfg.maxCap
        /\ DOMAIN tbl[v].slots = 0..(tbl[v].capacity - 1)
        /\ tbl[v].live_count \in 0..tbl[v].capacity
        /\ tbl[v].tombstone_count \in 0..tbl[v].capacity

----------------------------------------------------------------------------
(* Properties *)

Occupied(t) == { i \in 0..(t.capacity - 1) : t.slots[i].state = "Occupied" }

\* C1: after any sequence of inserts (no remove so far), in each of the three variants
\* emplace(k) of every inserted key k reports found and returns the value of the most
\* recent insert of k.
C1_LastWriteWins ==
    ~removed =>
        \A v \in Variants : \A k \in cfg.keys :
            ref[k] # NoValue => Emplace(v, tbl[v], k) = Found(ref[k])

\* inserts only, a resize inside the last insert, a key displaced from its home index by a
\* collision, and a key whose latest value is not the first value
C1_Witness ==
    /\ ~removed
    /\ last.op = "insert"
    /\ \A v \in Variants :
        /\ growth[v].resized
        /\ \E i \in Occupied(tbl[v]) :
              Distance(tbl[v].slots[i].hash, tbl[v].capacity, i) > 0
        /\ \E i \in Occupied(tbl[v]) : tbl[v].slots[i].value = 2

\* C2: in each variant, whenever remove(k) has returned true, an emplace(k) made next
\* reports absent and a second remove(k) made next returns false.
C2_RemoveThenAbsent ==
    \A v \in Variants :
        (last.op = "remove" /\ last.result[v].found) =>
            /\ ~Emplace(v, tbl[v], last.key).found
            /\ ~Remove(v, tbl[v], last.key).result

\* a remove that returned true in all three variants and left other entries behind
C2_Witness ==
    /\ last.op = "remove"
    /\ \A v \in Variants : last.result[v].found /\ tbl[v].live_count >= 2
    /\ tbl["Tombstone"].tombstone_count >= 1

\* C3: in each variant, insert(k, v) of a key that is already present leaves live_count
\* unchanged (and, in the Robin Hood map, the PSL of the entry unchanged), and in every
\* reachable state no key is held by more than one Occupied slot.
C3_UpdateNoDuplicate ==
    /\ [](\A v \in Variants : \A k \in cfg.keys : Cardinality(SlotsOf(tbl[v], k)) <= 1)
    /\ [][\A v \in Variants :
            (last'.op = "insert" /\ Present(tbl[v], last'.key)) =>
                /\ tbl'[v].live_count = tbl[v].live_count
                /\ Emplace(v, tbl'[v], last'.key) = Found(ref'[last'.key])
                /\ v = "RobinHood" =>
                     \A i \in SlotsOf(tbl[v], last'.key) :
                         /\ i \in SlotsOf(tbl'[v], last'.key)
                         /\ tbl'[v].slots[i].psl = tbl[v].slots[i].psl]_vars

\* an insert of a present key: in the tombstone table a Tombstone lies on the key's probe
\* path before the slot that holds it; in the Robin Hood table the entry has a PSL > 0
C3_Witness ==
    /\ last.op = "insert"
    /\ \A v \in Variants : last.present[v]
    /\ LET t == tbl["Tombstone"]
       IN  \E i \in SlotsOf(t, last.key) : \E j \in TombstoneSlots(t) :
               Distance(Hash(last.key), t.capacity, j) < Distance(Hash(last.key), t.capacity, i)
    /\ \E i \in SlotsOf(tbl["RobinHood"], last.key) : tbl["RobinHood"].slots[i].psl > 0

\* C4: in each variant, remove(k) returns true exactly when k was present before the
\* call; when k is absent it returns false and leaves the slot array, live_count,
\* tombstone_count and capacity unchanged.
C4_RemoveIffPresent ==
    [][last'.op = "remove" =>
          \A v \in Variants :
              /\ last'.result[v].found = Present(tbl[v], last'.key)
              /\ ~Present(tbl[v], last'.key) => tbl'[v] = tbl[v]]_vars

\* a remove of an absent key, answered false, from tables that hold entries (and, in the
\* tombstone variant, a tombstone)
C4_Witness ==
    /\ last.op = "remove"
    /\ \A v \in Variants : ~last.present[v] /\ ~last.result[v].found /\ tbl[v].live_count >= 1
    /\ tbl["Tombstone"].tombstone_count >= 1

\* C5: in the backward-shift and Robin Hood variants tombstone_count is 0 and no slot
\* is a Tombstone, after every operation.
C5_NoTombstones ==
    \A v \in {"BackwardShift", "RobinHood"} :
        tbl[v].tombstone_count = 0 /\ TombstoneSlots(tbl[v]) = {}

\* a successful remove from both maps that left entries behind, where the tombstone
\* variant did mark a tombstone
C5_Witness ==
    /\ last.op = "remove"
    /\ \A v \in Variants : last.result[v].found /\ tbl[v].live_count >= 1
    /\ TombstoneSlots(tbl["Tombstone"]) # {}
    /\ \E i \in Occupied(tbl["BackwardShift"]) :
          Distance(tbl["BackwardShift"].slots[i].hash, tbl["BackwardShift"].capacity, i) > 0

\* C6: in every reachable state live_count + tombstone_count <= capacity in the tombstone
\* variant (and in the other two, whose tombstone_count is 0), live_count <= capacity in
\* every variant, the two counters counting the Occupied and the Tombstone slots, and
\* no completed insert leaves a table with live_count = capacity.
C6_WithinCapacity ==
    \A v \in Variants :
        /\ tbl[v].live_count + tbl[v].tombstone_count <= tbl[v].capacity
        /\ tbl[v].live_count <= tbl[v].capacity
        /\ tbl[v].live_count = Cardinality(Occupied(tbl[v]))
        /\ tbl[v].tombstone_count = Cardinality(TombstoneSlots(tbl[v]))
        /\ last.op = "insert" => tbl[v].live_count < tbl[v].capacity

\* an insert that filled its table (live_count = capacity) and grew it before returning
C6_Witness ==
    /\ last.op = "insert"
    /\ \A v \in Variants : growth[v].resized /\ growth[v].oldLive = growth[v].oldCapacity

\* C7 as claimed: every resize of the tombstone table leaves tombstone_count at 0,
\* strictly below the count before the resize, and no Tombstone slot.
C7_AsClaimed ==
    growth["Tombstone"].resized =>
        /\ tbl["Tombstone"].tombstone_count = 0
        /\ tbl["Tombstone"].tombstone_count < growth["Tombstone"].oldTombstones
        /\ TombstoneSlots(tbl["Tombstone"]) = {}

\* C7 amended: every resize of the tombstone table leaves tombstone_count at 0 and no
\* Tombstone slot; the count is strictly smaller than before the resize exactly when the
\* table held a tombstone before it, and equal (0) otherwise.
C7_ResizeDropsTombstones ==
    growth["Tombstone"].resized =>
        /\ tbl["Tombstone"].tombstone_count = 0
        /\ TombstoneSlots(tbl["Tombstone"]) = {}
        /\ tbl["Tombstone"].tombstone_count <= growth["Tombstone"].oldTombstones
        /\ growth["Tombstone"].oldTombstones > 0 =>
             tbl["Tombstone"].tombstone_count < growth["Tombstone"].oldTombstones

\* a resize of the tombstone table that held a tombstone and a live entry
C7_Witness ==
    /\ growth["Tombstone"].resized
    /\ growth["Tombstone"].oldTombstones > 0
    /\ tbl["Tombstone"].live_count >= 1

\* C8: in each variant a resize preserves the contents: the set of (key, value) pairs
\* in Occupied slots after it equals the set before it, with as many Occupied slots as
\* before (none lost, duplicated or altered), and the capacity is larger.
C8_ResizePreservesPairs ==
    \A v \in Variants :
        growth[v].resized =>
            /\ Pairs(tbl[v]) = growth[v].oldPairs
            /\ Cardinality(Occupied(tbl[v])) = growth[v].oldLive
            /\ tbl[v].live_count = growth[v].oldLive
            /\ tbl[v].capacity > growth[v].oldCapacity

\* a resize, in all three variants, of a table holding two entries, the first slot included
C8_Witness ==
    \A v \in Variants :
        /\ growth[v].resized
        /\ Cardinality(growth[v].oldPairs) >= 2
        /\ \E i \in Occupied(tbl[v]) : Distance(tbl[v].slots[i].hash, tbl[v].capacity, i) > 0

RECURSIVE SumOver(_, _)
SumOver(f, S) ==
    IF S = {} THEN 0
    ELSE LET x == CHOOSE y \in S : TRUE IN f[x] + SumOver(f, S \ {x})

\* sum of the PSLs stored in the entries of a Robin Hood table
TotalPsl(t) == SumOver([i \in Occupied(t) |-> t.slots[i].psl], Occupied(t))

\* sum of the probe distances (slot - home index, modulo capacity) of the entries
TotalDistance(t) ==
    SumOver([i \in Occupied(t) |-> Distance(t.slots[i].hash, t.capacity, i)], Occupied(t))

\* C9: after any sequence of inserts (no remove), the sum of the PSLs of the entries of
\* the Robin Hood table equals the sum of the probe distances of the entries of a linear
\* probing table of the same capacity populated by the same inserts in the same order.
C9_TotalPslConserved ==
    ~removed =>
        \A v \in {"Tombstone", "BackwardShift"} :
            /\ tbl[v].capacity = tbl["RobinHood"].capacity
            /\ TotalPsl(tbl["RobinHood"]) = TotalDistance(tbl[v])

\* inserts only, and a Robin Hood swap has happened: some key sits in different slots in
\* the Robin Hood and the linear table
C9_Witness ==
    /\ ~removed
    /\ TotalPsl(tbl["RobinHood"]) >= 2
    /\ \E k \in cfg.keys :
          /\ Present(tbl["RobinHood"], k)
          /\ SlotsOf(tbl["RobinHood"], k) # SlotsOf(tbl["BackwardShift"], k)

\* the worked example: insert (0, 1), (8, 1), (16, 1), (32, 1) into an empty table of
\* capacity 8, then remove 8
ScenarioInserts == << <<"insert", 0, 1>>, <<"insert", 8, 1>>, <<"insert", 16, 1>>, <<"insert", 32, 1>> >>
ScenarioRemove  == Append(ScenarioInserts, <<"remove", 8>>)

Holds(t, i, k) == t.slots[i].state = "Occupied" /\ t.slots[i].key = k /\ t.slots[i].value = 1

\* C10: with capacity 8, identity hash and no resize, inserting 0, 8, 16, 32 (value 1)
\* places them at indices 0, 1, 2, 3.  After remove(8): in the tombstone variant index 1
\* is a Tombstone and emplace(16), emplace(32) still return 1; in the backward-shift
\* variant 16 is at index 1, 32 at index 2, index 3 is Empty and emplace(32) returns 1,
\* found at index 2.
C10_WorkedExample ==
    /\ log = ScenarioInserts =>
         \A v \in Variants :
             /\ tbl[v].capacity = 8
             /\ Holds(tbl[v], 0, 0) /\ Holds(tbl[v], 1, 8)
             /\ Holds(tbl[v], 2, 16) /\ Holds(tbl[v], 3, 32)
    /\ log = ScenarioRemove =>
         /\ tbl["Tombstone"].slots[1].state = "Tombstone"
         /\ Emplace("Tombstone", tbl["Tombstone"], 16) = Found(1)
         /\ Emplace("Tombstone", tbl["Tombstone"], 32) = Found(1)
         /\ Holds(tbl["BackwardShift"], 1, 16)
         /\ Holds(tbl["BackwardShift"], 2, 32)
         /\ tbl["BackwardShift"].slots[3].state = "Empty"
         /\ Emplace("BackwardShift", tbl["BackwardShift"], 32) = Found(1)
         /\ LinearFind(tbl["BackwardShift"], 32) = 2
         /\ (last.op = "emplace" /\ last.key \in {16, 32}) =>
              \A v \in Variants : last.result[v] = Found(1)

\* the example has run to its end and emplace(32) has then been called
C10_Witness ==
    /\ log = ScenarioRemove
    /\ last.op = "emplace" /\ last.key = 32
    /\ \A v \in Variants : tbl[v].capacity = 8 /\ tbl[v].live_count = 3

\* the slots on the probe path of the entry in slot i, before slot i
PathBefore(t, i) ==
    { ProbeIndex(t.slots[i].hash, t.capacity, n) :
        n \in 0..(Distance(t.slots[i].hash, t.capacity, i) - 1) }

\* C11: in the backward-shift variant, after any sequence of inserts and removes, every
\* Occupied entry is reachable by its own probe sequence: no Empty slot lies on the probe
\* path from its home index up to its slot, and the look-up of its key ends in its slot.
C11_BackwardShiftReachable ==
    LET t == tbl["BackwardShift"]
    IN  \A i \in Occupied(t) :
            /\ \A j \in PathBefore(t, i) : t.slots[j].state # "Empty"
            /\ LinearFind(t, t.slots[i].key) = i

\* a remove whose shift passed over an entry sitting at its home index (slot h + 1) and
\* moved a later entry of another home index into the hole (slot h)
C11_Witness ==
    LET t == tbl["BackwardShift"]
    IN  /\ last.op = "remove" /\ last.result["BackwardShift"].found
        /\ \E h \in Occupied(t) :
              LET n == (h + 1) % t.capacity
              IN  /\ t.slots[h].key \in last.moved["BackwardShift"]
                  /\ n \in Occupied(t)
                  /\ t.slots[n].key \notin last.moved["BackwardShift"]
                  /\ Distance(t.slots[n].hash, t.capacity, n) = 0

\* the probe distance of key k in table t (k is held by exactly one slot)
DistanceOf(t, k) ==
    LET i == CHOOSE j \in SlotsOf(t, k) : TRUE
    IN  Distance(t.slots[i].hash, t.capacity, i)

\* C12: during a backward-shift removal (backward-shift and Robin Hood variants) no entry
\* is moved to a slot that precedes its home index in probe order: every entry that the
\* removal relocates ends at a smaller, still non-negative, distance from its home index
\* (it is moved back by no more slots than its distance), and an entry that sits at its
\* home index is not moved.
C12_ShiftNeverPastHome ==
    [][last'.op = "remove" =>
          \A v \in {"BackwardShift", "RobinHood"} : \A k \in cfg.keys :
              (Present(tbl[v], k) /\ Present(tbl'[v], k)) =>
                  /\ DistanceOf(tbl'[v], k) <= DistanceOf(tbl[v], k)
                  /\ DistanceOf(tbl[v], k) = 0 => SlotsOf(tbl'[v], k) = SlotsOf(tbl[v], k)
                  /\ k \in last'.moved[v] => DistanceOf(tbl'[v], k) < DistanceOf(tbl[v], k)]_vars

\* a removal after which, in both variants, an entry has been moved back next to the hole
\* it left and the entry that follows sits at its home index, where the shift left it
C12_Witness ==
    /\ last.op = "remove"
    /\ \A v \in {"BackwardShift", "RobinHood"} :
          LET t == tbl[v]
              prev(i) == (i + t.capacity - 1) % t.capacity
          IN  /\ last.result[v].found
              /\ \E i \in Occupied(t) :
                    /\ t.slots[i].key \notin last.moved[v]
                    /\ Distance(t.slots[i].hash, t.capacity, i) = 0
                    /\ \/ /\ prev(i) \in Occupied(t)
                          /\ t.slots[prev(i)].key \in last.moved[v]
                       \/ /\ t.slots[prev(i)].state = "Empty"
                          /\ prev(prev(i)) \in Occupied(t)
                          /\ t.slots[prev(prev(i))].key \in last.moved[v]

\* C13: in the Robin Hood variant, after any sequence of inserts, removes and resizes,
\* for every Occupied entry at probe distance d from its home index every slot at step
\* i < d of its probe path is Occupied by an entry whose PSL is >= i, so the early
\* termination of emplace / remove never misses a present key.
C13_EarlyTerminationSound ==
    LET t == tbl["RobinHood"]
    IN  \A s \in Occupied(t) :
            /\ \A i \in 0..(Distance(t.slots[s].hash, t.capacity, s) - 1) :
                  LET j == ProbeIndex(t.slots[s].hash, t.capacity, i)
                  IN  t.slots[j].state = "Occupied" /\ t.slots[j].psl >= i
            /\ RobinHoodFind(t, t.slots[s].key) = s

\* after a remove that shifted entries back, the Robin Hood table holds an entry away from
\* its home index behind an entry of another home index
C13_Witness ==
    LET t == tbl["RobinHood"]
    IN  /\ last.op = "remove" /\ last.moved["RobinHood"] # {}
        /\ \E s \in Occupied(t) :
              /\ Distance(t.slots[s].hash, t.capacity, s) >= 1
              /\ \E j \in PathBefore(t, s) :
                    HomeIndex(t.slots[j].hash, t.capacity) # HomeIndex(t.slots[s].hash, t.capacity)

\* C14: in the Robin Hood variant, in every reachable state the PSL stored in each
\* Occupied entry equals its probe distance (slot index - home index) mod capacity, with
\* home index = hash mod capacity; after a removal every relocated entry's PSL is
\* exactly one less than before.
C14_PslIsDistance ==
    /\ [](\A s \in Occupied(tbl["RobinHood"]) :
             tbl["RobinHood"].slots[s].psl =
                 Distance(tbl["RobinHood"].slots[s].hash, tbl["RobinHood"].capacity, s))
    /\ [][last'.op = "remove" =>
            \A k \in last'.moved["RobinHood"] :
                \A i \in SlotsOf(tbl["RobinHood"], k) : \A j \in SlotsOf(tbl'["RobinHood"], k) :
                    tbl'["RobinHood"].slots[j].psl = tbl["RobinHood"].slots[i].psl - 1]_vars

\* a remove that shifted back an entry which still has a PSL > 0
C14_Witness ==
    LET t == tbl["RobinHood"]
    IN  /\ last.op = "remove"
        /\ \E s \in Occupied(t) : t.slots[s].key \in last.moved["RobinHood"] /\ t.slots[s].psl >= 1

WithinThreshold(t, th) == ~ExceedsThreshold(t, th)

\* C16 as claimed: for the configured threshold, in every state between operations
\* (live_count + tombstone_count) / capacity <= threshold in every variant, an insert
\* that crosses the threshold having resized before it returned; emplace and remove
\* never change capacity.
C16_AsClaimed ==
    /\ [](\A v \in Variants : WithinThreshold(tbl[v], cfg.threshold))
    /\ [][/\ last'.op \in {"emplace", "remove"} =>
                \A v \in Variants : tbl'[v].capacity = tbl[v].capacity
          /\ last'.op = "insert" =>
                \A v \in Variants :
                    ExceedsThreshold(Place(v, tbl[v], last'.key, ref'[last'.key]),
                                     cfg.threshold) => growth'[v].resized]_vars

\* C16, the part that holds for every threshold: an insert whose placement crosses the
\* threshold resizes before it returns, and emplace and remove never change capacity.
C16_ResizeInsideInsert ==
    [][/\ last'.op \in {"emplace", "remove"} =>
            \A v \in Variants : tbl'[v].capacity = tbl[v].capacity
       /\ last'.op = "insert" =>
            \A v \in Variants :
                /\ ExceedsThreshold(Place(v, tbl[v], last'.key, ref'[last'.key]),
                                    cfg.threshold) <=> growth'[v].resized
                /\ growth'[v].resized => tbl'[v].capacity = GrowCapacity(tbl[v].capacity)]_vars

\* C16 for thresholds of at least 1/2: one doubling brings the load back under the threshold
C16_WithinThresholdFromHalf ==
    2 * cfg.threshold.num >= cfg.threshold.den =>
        \A v \in Variants : WithinThreshold(tbl[v], cfg.threshold)

\* an insert that grew its table and returned with the load still above the threshold
C16_Witness ==
    /\ last.op = "insert"
    /\ \E v \in Variants : growth[v].resized /\ ExceedsThreshold(tbl[v], cfg.threshold)

\* what the reference map returns for a look-up of k
RefEmplace(k) == IF ref[k] = NoValue THEN NotFound ELSE Found(ref[k])

\* C17: the three variants are observationally equivalent to the reference map: in every
\* state each variant's emplace of every key returns what the reference returns (so did
\* the emplace just made), and each variant's remove reports a key removed exactly when
\* the reference held it; hence the variants agree with each other.
C17_VariantsMatchReference ==
    /\ [](/\ \A v \in Variants : \A k \in cfg.keys : Emplace(v, tbl[v], k) = RefEmplace(k)
          /\ last.op = "emplace" =>
                \A v \in Variants : last.result[v] = RefEmplace(last.key))
    /\ [][last'.op = "remove" =>
            \A v \in Variants : last'.result[v].found = (ref[last'.key] # NoValue)]_vars

\* an emplace that found its key in all three variants after a removal and a later insert,
\* the tombstone table having grown (its tombstones count towards the load) while the
\* other two have not, so that the key lies in different slots of different variants
C17_Witness ==
    /\ last.op = "emplace" /\ removed
    /\ \A v \in Variants : last.result[v] = Found(ref[last.key])
    /\ tbl["Tombstone"].capacity > tbl["BackwardShift"].capacity
    /\ tbl["RobinHood"].capacity = tbl["BackwardShift"].capacity
    /\ SlotsOf(tbl["Tombstone"], last.key) # SlotsOf(tbl["BackwardShift"], last.key)

====
